---- MODULE Spec2Model ----
(***************************************************************************)
(* A model of the C wrapper around the hnswlib engine                      *)
(* (Sources/CppSources/HNSWLibWrapper.cpp): the ParallelFor executor, the  *)
(* HNSWIndex and BFIndex handles and the extern "C" operations on them.    *)
(* The engine classes (HierarchicalNSW, BruteforceSearch, the metric       *)
(* spaces) live in hnswlib.h, which is not part of the sources at hand;    *)
(* they are modelled from the specification's description of them.         *)
(***************************************************************************)
EXTENDS Integers, Sequences, FiniteSets, TLC

VARIABLES
    call,           \* the batch call in progress (its arguments, as resolved)
    current,        \* ParallelFor: std::atomic<size_t> current
    lastException,  \* ParallelFor: std::exception_ptr lastException (<<>> = nullptr)
    lastExceptMutex,\* ParallelFor: the set of threads holding lastExceptMutex
    wpc,            \* per worker thread: position in the worker lambda
    wid,            \* per worker thread: the local size_t id
    wexc,           \* per worker thread: the exception in flight (<<>> = none)
    recorded,       \* history: the failures in the order they were recorded
    claimed,        \* history: the indices handed to fn so far in this run
    finished,       \* history: the indices whose fn has returned or thrown
    invoked,        \* history: per index, how many times fn was called for it
    stopped,        \* history: a worker has recorded a failure and set current = end
    propagated,     \* what the run handed to its caller (<<>> = normal return)
    pfstate,        \* "none", "running" (inside ParallelFor) or "returned"
    index,          \* the HNSWIndex struct behind the handle
    alg,            \* the HierarchicalNSW object at index->appr_alg
    bf,             \* the BFIndex struct behind the handle
    bfalg,          \* the BruteforceSearch object at bf->alg
    file,           \* the snapshot stored at the save path
    norm_array,     \* the per-thread scratch buffer of a cosine batch
    result_labels,  \* the caller's output buffer of labels
    result_distances, \* the caller's output buffer of distances
    slot_writer,    \* history: per output slot, the queries that wrote it
    handed,         \* history: per row, the (label, vector) given to addPoint
    returned,       \* history: per query, the queue the engine returned
    early,          \* history: a row other than 0 was inserted before row 0
    threw,          \* history: the rows whose addPoint threw in this call
    auto_labels,    \* history: the auto-assigned labels inserted so far
    saved,          \* history: the engine as it was at the last save
    ef_set,         \* history: the last ef given to setEf on this handle (0: none)
    ret,            \* what the last call returned
    ncalls,         \* the number of calls made
    budget,         \* the number of calls the caller makes in all
    ub,             \* history: the undefined behaviour executed so far
    crashed         \* the process died

pfvars == <<current, lastException, lastExceptMutex, wpc, wid, wexc,
            recorded, claimed, finished, invoked, stopped, propagated>>
idxvars == <<index, alg>>
bfvars == <<bf, bfalg>>
bufvars == <<norm_array, result_labels, result_distances, slot_writer>>
histvars == <<handed, returned, early, threw, auto_labels, saved, ef_set>>

others == <<idxvars, bfvars, file, bufvars, histvars, ret, ncalls, budget, ub,
            crashed>>

vars == <<call, pfstate, pfvars, others>>

----------------------------------------------------------------------------
(* Bounds of the model *)

MaxThreads == 3      \* worker threads modelled
MaxEnd == 3          \* largest range end of the bare executor runs

Threads == 0 .. (MaxThreads - 1)

\* std::thread::hardware_concurrency() of the host
hardware_concurrency == 2

NoException == <<>>

----------------------------------------------------------------------------
(* Vectors, normalization and the metric spaces.  A float is modelled as a  *)
(* fixed-point number with Scale units to 1.0.                              *)

Scale == 100

Dim == 2             \* the dimension the index is created with

RECURSIVE ISqrt(_)
\* sqrtf, rounded down to a whole unit
ISqrt(n) ==
    IF n < 2 THEN n
    ELSE LET s == 2 * ISqrt(n \div 4)
         IN  IF (s + 1) * (s + 1) <= n THEN s + 1 ELSE s

RECURSIVE SumSq(_, _)
\* for (i < dim) norm += data[i] * data[i];
SumSq(v, i) == IF i = 0 THEN 0 ELSE v[i] * v[i] + SumSq(v, i - 1)

\* normalize_vector(data, norm_array, dim): norm = 1 / (sqrtf(norm) + 1e-30f);
\* norm_array[i] = data[i] * norm.  A zero vector stays zero (0 * 1e30).
normalize_vector(data) ==
    LET norm == ISqrt(SumSq(data, Len(data)))
    IN  [i \in 1 .. Len(data) |->
            IF norm = 0 THEN 0 ELSE (data[i] * Scale) \div norm]

RECURSIVE Dot(_, _, _)
Dot(a, b, i) == IF i = 0 THEN 0 ELSE a[i] * b[i] + Dot(a, b, i - 1)

RECURSIVE SqDiff(_, _, _)
SqDiff(a, b, i) ==
    IF i = 0 THEN 0 ELSE (a[i] - b[i]) * (a[i] - b[i]) + SqDiff(a, b, i - 1)

\* MetricSpace.distance: L2Space is the squared Euclidean distance,
\* InnerProductSpace (inner product and cosine) is 1 - <a, b>.
Distance(l2, a, b) ==
    IF l2 THEN SqDiff(a, b, Len(a)) ELSE Scale * Scale - Dot(a, b, Len(a))

\* HNSWIndex / BFIndex constructor: the space chosen for each SpaceType
SpaceTypes == {"L2", "IP", "Cosine"}

\* the caller's row-major input buffers: row r of the data of an addItems
\* batch, query i of a searchKnn batch
DataRow(r) == [i \in 1 .. Dim |-> IF i = 1 THEN Scale * (r + 1) ELSE Scale]
QueryRow(q) == [i \in 1 .. Dim |-> IF i = 1 THEN Scale ELSE Scale * 2 * (q + 1)]

\* the caller's explicit labels: ids[r]
IdOfRow(r) == 1000 + r

----------------------------------------------------------------------------
(* The engine objects (hnswlib.h), modelled from the specification.         *)
(* points maps each stored label to its vector; deleted holds the           *)
(* tombstoned labels.                                                       *)

MemLimit == 20       \* the largest capacity the host can allocate

InitialEf == 10      \* the engine's ef before anyone sets it

NoPoints == [l \in {} |-> <<>>]

\* what an engine pointer that was never set points to
NoEngine ==
    [max_elements_ |-> 0, M_ |-> 0, ef_ |-> 0, points |-> NoPoints,
     deleted |-> {}, allow_replace_deleted_ |-> FALSE]

\* HierarchicalNSW(space, max_elements, M, ef_construction, seed,
\* allow_replace_deleted) and BruteforceSearch(space, max_elements): allocate
\* the node arena; OutOfMemory when the allocation fails.
EngineCtorThrows(max_elements) == max_elements > MemLimit

NewEngine(max_elements, M, allow_replace_deleted) ==
    [max_elements_ |-> max_elements, M_ |-> M, ef_ |-> InitialEf,
     points |-> NoPoints, deleted |-> {},
     allow_replace_deleted_ |-> allow_replace_deleted]

cur_element_count(e) == Cardinality(DOMAIN e.points)

\* insert: a tombstoned slot is reused when replace_deleted is asked for and
\* allowed; otherwise CapacityExceeded when the arena is full.  A label that
\* is already stored has its vector replaced.
ReusableSlots(e, replace_deleted) ==
    IF replace_deleted /\ e.allow_replace_deleted_ THEN e.deleted ELSE {}

addPointThrows(e, label, replace_deleted) ==
    /\ label \notin DOMAIN e.points
    /\ ReusableSlots(e, replace_deleted) = {}
    /\ cur_element_count(e) >= e.max_elements_

addPoint(e, vec, label, replace_deleted) ==
    IF label \in DOMAIN e.points
      THEN [e EXCEPT !.points = [e.points EXCEPT ![label] = vec]]
    ELSE IF ReusableSlots(e, replace_deleted) # {}
      THEN LET old == CHOOSE l \in ReusableSlots(e, replace_deleted) :
                        \A m \in ReusableSlots(e, replace_deleted) : l <= m
               keep == DOMAIN e.points \ {old}
           IN  [e EXCEPT
                 !.points = [l \in keep \cup {label} |->
                               IF l = label THEN vec ELSE e.points[l]],
                 !.deleted = e.deleted \ {old}]
    ELSE [e EXCEPT
           !.points = [l \in DOMAIN e.points \cup {label} |->
                         IF l = label THEN vec ELSE e.points[l]]]

\* std::pair<float, labeltype> is ordered by distance, then by label
PairLess(a, b) == a[1] < b[1] \/ (a[1] = b[1] /\ a[2] < b[2])

MinPair(S) == CHOOSE a \in S : \A b \in S : a = b \/ PairLess(a, b)
MaxPair(S) == CHOOSE a \in S : \A b \in S : a = b \/ PairLess(b, a)

RECURSIVE Closest(_, _)
\* the n smallest pairs of S
Closest(S, n) ==
    IF n <= 0 \/ S = {} THEN {}
    ELSE {MinPair(S)} \cup Closest(S \ {MinPair(S)}, n - 1)

Min(a, b) == IF a < b THEN a ELSE b

\* HierarchicalNSW::searchKnn(query, k): a best-first search bounded by ef
\* that returns the k closest live nodes it reached, as a max-first queue
\* (here: the set of its (distance, label) pairs).
searchKnn(e, l2, query, k) ==
    LET live == DOMAIN e.points \ e.deleted
        all  == {<<Distance(l2, query, e.points[l]), l>> : l \in live}
    IN  Closest(all, Min(k, e.ef_))

\* BruteforceSearch::searchKnn(query, k): a linear scan keeping the k
\* smallest distances
bf_searchKnn(e, l2, query, k) ==
    LET all == {<<Distance(l2, query, e.points[l]), l>> :
                  l \in DOMAIN e.points}
    IN  Closest(all, k)

\* markDelete / unmarkDelete: toggle the tombstone of a stored label; an
\* unknown label is an error the wrapper swallows
markDelete(e, label) ==
    IF label \in DOMAIN e.points
      THEN [e EXCEPT !.deleted = e.deleted \cup {label}] ELSE e

unmarkDelete(e, label) == [e EXCEPT !.deleted = e.deleted \ {label}]

\* resizeIndex(new_size): InvalidArgument below the current count,
\* OutOfMemory when the arena cannot grow
resizeIndexThrows(e, new_size) ==
    new_size < cur_element_count(e) \/ new_size > MemLimit

resizeIndex(e, new_size) == [e EXCEPT !.max_elements_ = new_size]

\* PersistenceCodec: the header (M, current ef, counts) followed by one
\* record per node: label, tombstone flag, stored vector
NoFile == [present |-> FALSE, M |-> 0, ef |-> 0, total |-> 0, nodes |-> {}]

saveIndex(e) ==
    [present |-> TRUE, M |-> e.M_, ef |-> e.ef_,
     total |-> cur_element_count(e),
     nodes |-> {<<l, l \in e.deleted, e.points[l]>> : l \in DOMAIN e.points}]

\* HierarchicalNSW(space, path, false, max_elements, allow_replace_deleted):
\* IOError when there is no file; the arena gets the larger of the asked
\* capacity and the stored count
loadIndexThrows(f, max_elements) ==
    \/ ~f.present
    \/ max_elements > MemLimit

loadIndex(f, max_elements, allow_replace_deleted) ==
    LET labels == {n[1] : n \in f.nodes}
    IN  [max_elements_ |-> IF max_elements < f.total THEN f.total
                           ELSE max_elements,
         M_ |-> f.M,
         ef_ |-> f.ef,
         points |-> [l \in labels |->
                       (CHOOSE n \in f.nodes : n[1] = l)[3]],
         deleted |-> {n[1] : n \in {m \in f.nodes : m[2]}},
         allow_replace_deleted_ |-> allow_replace_deleted]

----------------------------------------------------------------------------
(* ParallelFor(start, end, numThreads, fn)                                  *)

\* if (numThreads <= 0) numThreads = std::thread::hardware_concurrency();
ResolveThreads(numThreads) ==
    IF numThreads <= 0 THEN hardware_concurrency ELSE numThreads

\* numThreads == 1: the calling thread runs the loop itself (modelled as
\* thread 0 at "loop"); otherwise numThreads workers start at "fetch".
WorkersAtStart(nt) ==
    [t \in Threads |->
        IF nt = 1 THEN (IF t = 0 THEN "loop" ELSE "idle")
        ELSE (IF t < nt THEN "fetch" ELSE "idle")]

Sequential == call.numThreads = 1

\* The state ParallelFor sets up before any unit runs.
ParallelForStart(start, nt) ==
    /\ current' = start
    /\ lastException' = NoException
    /\ lastExceptMutex' = {}
    /\ wpc' = WorkersAtStart(nt)
    /\ wid' = [t \in Threads |-> start]
    /\ wexc' = [t \in Threads |-> NoException]
    /\ recorded' = <<>>
    /\ claimed' = {}
    /\ finished' = {}
    /\ invoked' = <<>>
    /\ stopped' = FALSE
    /\ propagated' = NoException
    /\ pfstate' = "running"

\* a variant whose fetch does not advance the cursor
FetchWithoutAdd(cur) == cur

\* current.fetch_add(1): the value stored
FetchAdd(cur) == cur + 1

\* size_t id = current.fetch_add(1); if (id >= end) break;
Fetch(t) ==
    /\ pfstate = "running" /\ ~crashed
    /\ wpc[t] = "fetch"
    /\ wid' = [wid EXCEPT ![t] = current]
    /\ current' = FetchAdd(current)
    /\ IF current >= call.end
          THEN /\ wpc' = [wpc EXCEPT ![t] = "exit"]
               /\ claimed' = claimed
          ELSE /\ wpc' = [wpc EXCEPT ![t] = "fn"]
               /\ claimed' = claimed \cup {current}
    /\ UNCHANGED <<call, lastException, lastExceptMutex, wexc, recorded,
                   finished, invoked, stopped, propagated, pfstate>>
    /\ UNCHANGED others

\* for (size_t id = start; id < end; id++) fn(id, 0);   (numThreads == 1)
Loop(t) ==
    /\ pfstate = "running" /\ ~crashed
    /\ wpc[t] = "loop"
    /\ IF wid[t] < call.end
          THEN /\ wpc' = [wpc EXCEPT ![t] = "fn"]
               /\ claimed' = claimed \cup {wid[t]}
          ELSE /\ wpc' = [wpc EXCEPT ![t] = "exit"]
               /\ claimed' = claimed
    /\ UNCHANGED <<call, current, lastException, lastExceptMutex, wid, wexc,
                   recorded, finished, invoked, stopped, propagated, pfstate>>
    /\ UNCHANGED others

\* one more call of fn for the index id
Invoke(f, id) ==
    [x \in DOMAIN f \cup {id} |->
        IF x = id THEN (IF id \in DOMAIN f THEN f[id] + 1 ELSE 1) ELSE f[x]]

\* fn(id, threadId) returned: the worker goes for its next index.
UnitReturns(t) ==
    /\ finished' = finished \cup {wid[t]}
    /\ invoked' = Invoke(invoked, wid[t])
    /\ IF Sequential
          THEN /\ wpc' = [wpc EXCEPT ![t] = "loop"]
               /\ wid' = [wid EXCEPT ![t] = wid[t] + 1]
          ELSE /\ wpc' = [wpc EXCEPT ![t] = "fetch"]
               /\ wid' = wid
    /\ wexc' = wexc

\* fn(id, threadId) threw e: a worker enters its catch (...) block; the
\* sequential loop has no try block and the exception leaves ParallelFor.
UnitThrows(t, e) ==
    /\ finished' = finished \cup {wid[t]}
    /\ invoked' = Invoke(invoked, wid[t])
    /\ wexc' = [wexc EXCEPT ![t] = e]
    /\ wpc' = [wpc EXCEPT ![t] = IF Sequential THEN "thrown" ELSE "catch"]
    /\ wid' = wid

\* a variant that keeps the exception recorded first
RecordFirstException(old, e) == IF old = NoException THEN e ELSE old

\* lastException = std::current_exception();
RecordException(old, e) == e

\* std::unique_lock<std::mutex> lastExcepLock(lastExceptMutex);
\* lastException = std::current_exception();
Catch(t) ==
    /\ pfstate = "running" /\ ~crashed
    /\ wpc[t] = "catch"
    /\ lastExceptMutex = {}
    /\ lastExceptMutex' = {t}
    /\ lastException' = RecordException(lastException, wexc[t])
    /\ recorded' = Append(recorded, wexc[t])
    /\ wpc' = [wpc EXCEPT ![t] = "setcur"]
    /\ UNCHANGED <<call, current, wid, wexc, claimed, finished, invoked, stopped,
                   propagated, pfstate>>
    /\ UNCHANGED others

\* a variant in which the lock outlives the catch block
LockKept(m, t) == m

\* ~unique_lock at the end of the catch block: the holder releases the mutex
Unlock(m, t) == m \ {t}

\* a variant that leaves the cursor where it is
CursorLeftAlone(cur, end) == cur

\* current = end;
MoveCursor(cur, end) == end

\* current = end; break;   (the lock is released as the block is left)
SetCur(t) ==
    /\ pfstate = "running" /\ ~crashed
    /\ wpc[t] = "setcur"
    /\ current' = MoveCursor(current, call.end)
    /\ lastExceptMutex' = Unlock(lastExceptMutex, t)
    /\ stopped' = TRUE
    /\ wpc' = [wpc EXCEPT ![t] = "exit"]
    /\ UNCHANGED <<call, lastException, wid, wexc, recorded, claimed, finished, invoked,
                   propagated, pfstate>>
    /\ UNCHANGED others

\* for (auto &thread : threads) thread.join();  -- every worker has left its
\* loop; in the sequential case the loop has ended or an exception left it.
Joined == \A t \in Threads : wpc[t] \in {"idle", "exit", "thrown"}

\* if (lastException) std::rethrow_exception(lastException);
Outcome ==
    IF \E t \in Threads : wpc[t] = "thrown"
      THEN wexc[CHOOSE t \in Threads : wpc[t] = "thrown"]
      ELSE lastException

----------------------------------------------------------------------------
(* The handles.                                                             *)

DefaultEf == 10

\* HNSWIndex(space_type, dim): lines 81-101
HNSWIndex(space_type, dim) ==
    [exists |-> TRUE,
     space_type |-> space_type,
     dim |-> dim,
     normalize |-> space_type = "Cosine",
     index_inited |-> FALSE,
     ep_added |-> FALSE,
     num_threads_default |-> hardware_concurrency,
     cur_l |-> 0,
     appr_alg |-> "null",      \* "null", "live", or "freed" (dangling)
     space |-> space_type \in SpaceTypes,
     default_ef |-> DefaultEf]

\* BFIndex(space_type, dim): lines 123-140
BFIndex(space_type, dim) ==
    [exists |-> TRUE,
     space_type |-> space_type,
     dim |-> dim,
     normalize |-> space_type = "Cosine",
     num_threads_default |-> hardware_concurrency,
     cur_l |-> 0,
     alg |-> "null",
     space |-> space_type \in SpaceTypes]

\* a handle that was not created
NoHNSWIndex == [HNSWIndex("L2", Dim) EXCEPT !.exists = FALSE]
NoBFIndex == [BFIndex("L2", Dim) EXCEPT !.exists = FALSE]

IsL2(h) == h.space_type = "L2"

\* the arguments of the call in progress, or of the last call made
NoCall ==
    [op |-> "none", start |-> 0, end |-> 0, numThreads |-> 1, failing |-> {},
     rows |-> 0, dim |-> 0, ids |-> FALSE, replace_deleted |-> FALSE,
     k |-> 0, arg |-> 0, cur_l0 |-> 0, ep0 |-> FALSE, asked |-> 0]

Bool(b) == [ok |-> b, value |-> 0]
Value(n) == [ok |-> TRUE, value |-> n]

NoRows == [r \in {} |-> <<>>]
NoQueues == [q \in {} |-> {}]
NoSlots == [s \in {} |-> 0]
NoWriters == [s \in {} |-> {}]
ZeroVector == [i \in 1 .. Dim |-> 0]
FreshScratch == [t \in Threads |-> ZeroVector]

\* no ParallelFor run is set up
WorkersIdle ==
    /\ current = 0
    /\ lastException = NoException
    /\ lastExceptMutex = {}
    /\ wpc = [t \in Threads |-> "idle"]
    /\ wid = [t \in Threads |-> 0]
    /\ wexc = [t \in Threads |-> NoException]
    /\ recorded = <<>>
    /\ claimed = {}
    /\ finished = {}
    /\ invoked = <<>>
    /\ stopped = FALSE
    /\ propagated = NoException

\* the same, of the next state: the threads vector and the locals are gone
\* once ParallelFor has returned
WorkersGone ==
    /\ current' = 0
    /\ lastException' = NoException
    /\ lastExceptMutex' = {}
    /\ wpc' = [t \in Threads |-> "idle"]
    /\ wid' = [t \in Threads |-> 0]
    /\ wexc' = [t \in Threads |-> NoException]
    /\ recorded' = <<>>
    /\ claimed' = {}
    /\ finished' = {}
    /\ invoked' = <<>>
    /\ stopped' = FALSE

NothingElse ==
    /\ file = NoFile
    /\ norm_array = FreshScratch
    /\ result_labels = NoSlots
    /\ result_distances = NoSlots
    /\ slot_writer = NoWriters
    /\ handed = NoRows
    /\ returned = NoQueues
    /\ early = FALSE
    /\ threw = {}
    /\ auto_labels = {}
    /\ saved = NoEngine
    /\ ef_set = 0
    /\ ret = Bool(TRUE)
    /\ ncalls = 0
    /\ ub = {}
    /\ crashed = FALSE

----------------------------------------------------------------------------
(* The executor on its own: ParallelFor over [start, end) with a unit that  *)
(* throws on the indices in call.failing.                                   *)

InitPF ==
    \E s \in 0 .. MaxEnd, e \in 0 .. MaxEnd, n \in 0 .. MaxThreads,
       f \in SUBSET (0 .. (MaxEnd - 1)) :
        /\ s <= e
        /\ call = [NoCall EXCEPT !.op = "pf", !.start = s, !.end = e,
                     !.numThreads = ResolveThreads(n), !.failing = f,
                     !.asked = n]
        /\ current = s
        /\ lastException = NoException
        /\ lastExceptMutex = {}
        /\ wpc = WorkersAtStart(ResolveThreads(n))
        /\ wid = [t \in Threads |-> s]
        /\ wexc = [t \in Threads |-> NoException]
        /\ recorded = <<>>
        /\ claimed = {}
        /\ finished = {}
        /\ invoked = <<>>
        /\ stopped = FALSE
        /\ propagated = NoException
        /\ pfstate = "running"
        /\ index = NoHNSWIndex /\ alg = NoEngine
        /\ bf = NoBFIndex /\ bfalg = NoEngine
        /\ budget = 0
        /\ NothingElse

\* fn(id, threadId) of the bare run: throws on a failing index.
UnitPF(t) ==
    /\ pfstate = "running"
    /\ call.op = "pf"
    /\ wpc[t] = "fn"
    /\ IF wid[t] \in call.failing
          THEN UnitThrows(t, <<wid[t]>>)
          ELSE UnitReturns(t)
    /\ UNCHANGED <<call, current, lastException, lastExceptMutex, recorded,
                   claimed, stopped, propagated, pfstate>>
    /\ UNCHANGED others

\* the join loop is over and ParallelFor returns or rethrows
ReturnPF ==
    /\ pfstate = "running"
    /\ call.op = "pf"
    /\ Joined
    /\ propagated' = Outcome
    /\ pfstate' = "returned"
    /\ UNCHANGED <<call, current, lastException, lastExceptMutex, wpc, wid,
                   wexc, recorded, claimed, finished, invoked, stopped>>
    /\ UNCHANGED others

NextPF ==
    \/ \E t \in Threads : Fetch(t)
    \/ \E t \in Threads : Loop(t)
    \/ \E t \in Threads : UnitPF(t)
    \/ \E t \in Threads : Catch(t)
    \/ \E t \in Threads : SetCur(t)
    \/ ReturnPF

SpecPF == InitPF /\ [][NextPF]_vars

\* what the thread t of a run does next: a worker's while loop (lines 31-48)
\* or the caller's for loop (lines 18-20)
WorkerStep(t) ==
    Fetch(t) \/ Loop(t) \/ UnitPF(t) \/ Catch(t) \/ SetCur(t)

\* The executor under a fair scheduler: a thread that can take its next step
\* eventually takes it (every unit terminates, a free mutex is eventually
\* granted), and the caller leaves the join loop once every worker has ended.
SpecPFFair ==
    /\ InitPF
    /\ [][NextPF]_vars
    /\ \A t \in Threads : WF_vars(WorkerStep(t))
    /\ WF_vars(ReturnPF)

----------------------------------------------------------------------------
(* The operations on an HNSWIndex handle.  A batch operation is the action  *)
(* that enters it (up to the start of ParallelFor), the steps of its units, *)
(* and the action that leaves it.                                           *)

MaxCalls == 3        \* calls made on a handle in its life

SmallCapacity == 2
LargeCapacity == 12

\* the smallest batch that is not forced to a single thread
BigBatch == 4 * hardware_concurrency + 1

MaxElementsIn == {SmallCapacity, LargeCapacity, MemLimit + 1}
RowsIn == {0, 1, 3, BigBatch}
ThreadsIn == {0, 1, 2}
DimsIn == {Dim, Dim + 1}
LabelsIn == {0, 1}
EfIn == {1, 3}
Garbage == {0, 7}

CanCall == pfstate = "none" /\ ~crashed /\ ncalls < budget

\* an engine call through a pointer whose object was destroyed
UseEngine == IF index.appr_alg = "freed" THEN {"use_after_free"} ELSE {}

\* the output buffers and the queues of the search before are not this
\* call's
NoBuffers ==
    /\ norm_array' = FreshScratch
    /\ result_labels' = NoSlots
    /\ result_distances' = NoSlots
    /\ slot_writer' = NoWriters
    /\ returned' = NoQueues

\* the rows of the addItems batch before are not this call's
NoBatch ==
    /\ handed' = NoRows
    /\ early' = FALSE
    /\ threw' = {}

\* a call that involves neither ParallelFor nor the buffers
Simple(op, arg) ==
    /\ call' = [NoCall EXCEPT !.op = op, !.arg = arg, !.cur_l0 = index.cur_l]
    /\ ncalls' = ncalls + 1
    /\ NoBuffers
    /\ NoBatch
    /\ UNCHANGED <<pfstate, pfvars, budget>>

\* the process dies of the undefined behaviour it executed; nothing of its
\* state is left
Crash ==
    /\ ~crashed
    /\ ub # {}
    /\ crashed' = TRUE
    /\ call' = NoCall
    /\ pfstate' = "none"
    /\ WorkersGone
    /\ propagated' = NoException
    /\ index' = NoHNSWIndex /\ alg' = NoEngine
    /\ bf' = NoBFIndex /\ bfalg' = NoEngine
    /\ norm_array' = FreshScratch
    /\ result_labels' = NoSlots
    /\ result_distances' = NoSlots
    /\ slot_writer' = NoWriters
    /\ handed' = NoRows
    /\ returned' = NoQueues
    /\ early' = FALSE
    /\ threw' = {}
    /\ auto_labels' = {}
    /\ saved' = NoEngine
    /\ ef_set' = 0
    /\ ret' = Bool(FALSE)
    /\ UNCHANGED <<file, ncalls, budget, ub>>

\* a variant of init that leaves the new engine's ef as constructed
EfNotInstalled(e, h) == e

\* index->appr_alg->ef_ = index->default_ef;
InstallEf(e, h) == [e EXCEPT !.ef_ = h.default_ef]

\* a variant of init that leaves ep_added as it finds it
HandleKeepingEntryPoint(h) ==
    [h EXCEPT !.cur_l = 0, !.appr_alg = "live", !.index_inited = TRUE]

\* index->cur_l = 0; index->appr_alg = new ...; index->index_inited = true;
\* index->ep_added = false;
InitializedHandle(h) ==
    [h EXCEPT !.cur_l = 0, !.appr_alg = "live", !.index_inited = TRUE,
              !.ep_added = FALSE]

\* hnswlib_index_init: lines 170-188
hnswlib_index_init(max_elements, M, allow_replace_deleted) ==
    /\ CanCall
    /\ index.exists
    /\ Simple("init", max_elements)
    /\ UNCHANGED <<bfvars, file, saved, ef_set, crashed>>
    /\ IF ~index.space
         THEN /\ ret' = Bool(FALSE)
              /\ UNCHANGED <<index, alg, auto_labels, ub>>
       ELSE IF EngineCtorThrows(max_elements)
         \* delete index->appr_alg; cur_l = 0; new throws; the pointer keeps
         \* the address of the destroyed object, whose memory is as it was
         \* or as the failed constructor left it
         THEN /\ ret' = Bool(FALSE)
              /\ index' = [index EXCEPT
                             !.cur_l = 0,
                             !.appr_alg = IF @ = "null" THEN "null" ELSE "freed"]
              /\ IF index.appr_alg = "null"
                   THEN alg' = alg
                   ELSE alg' \in {alg, NewEngine(max_elements, M,
                                                 allow_replace_deleted)}
              /\ ub' = ub \cup UseEngine
              /\ auto_labels' = auto_labels
         ELSE /\ ret' = Bool(TRUE)
              /\ index' = InitializedHandle(index)
              /\ alg' = InstallEf(NewEngine(max_elements, M,
                                             allow_replace_deleted), index)
              /\ ub' = ub \cup UseEngine
              /\ auto_labels' = {}

\* if (num_threads <= 0) num_threads = index->num_threads_default;
\* if (size <= (size_t)(num_threads * 4)) num_threads = 1;
BatchThreads(h, num_threads, size) ==
    LET nt == IF num_threads <= 0 THEN h.num_threads_default ELSE num_threads
    IN  IF size <= nt * 4 THEN 1 ELSE nt

\* a variant that does not compare the dimensions
DimNotCompared(h, dim) == FALSE

\* dim != (size_t)index->dim
WrongDim(h, dim) == dim # h.dim

\* a variant in which no row is ever singled out
EntryPointNeverFirst(h) == FALSE

\* if (!index->ep_added)
NeedsEntryPoint(h) == ~h.ep_added

\* size_t id = ids ? ids[row] : (index->cur_l + row);
LabelOfRow(h, ids, row) == IF ids THEN IdOfRow(row) ELSE h.cur_l + row

\* a variant in which every worker normalizes into the same slot
SharedScratchSlot(t) == 0

\* size_t start_idx = threadId * index->dim;
ScratchSlot(t) == t

Record(f, key, val) ==
    [x \in DOMAIN f \cup {key} |-> IF x = key THEN val ELSE f[x]]

\* hnswlib_index_add_items, up to the start of ParallelFor: lines 190-218
hnswlib_index_add_items(rows, dim, ids, num_threads, replace_deleted) ==
    /\ CanCall
    /\ index.exists
    /\ ncalls' = ncalls + 1
    /\ UNCHANGED budget
    /\ UNCHANGED <<bfvars, file, saved, ef_set, crashed>>
    /\ early' = FALSE
    /\ NoBuffers
    /\ LET nt == BatchThreads(index, num_threads, rows)
           c  == [NoCall EXCEPT !.op = "add", !.rows = rows, !.dim = dim,
                    !.ids = ids, !.replace_deleted = replace_deleted,
                    !.end = rows, !.numThreads = nt,
                    !.cur_l0 = index.cur_l, !.ep0 = index.ep_added]
       IN
       IF index.appr_alg = "null" \/ WrongDim(index, dim)
         THEN /\ call' = c
              /\ ret' = Bool(FALSE)
              /\ handed' = NoRows
              /\ threw' = {}
              /\ UNCHANGED <<pfstate, pfvars, index, alg, auto_labels, ub>>
       ELSE IF NeedsEntryPoint(index)
         \* row 0 goes in alone; with rows == 0 it is read past the buffers
         THEN \E g \in (IF rows = 0 THEN Garbage ELSE {0}) :
              LET id  == IF ids /\ rows = 0 THEN g
                         ELSE IF ids THEN IdOfRow(0) ELSE index.cur_l
                  raw == IF rows = 0 THEN [i \in 1 .. Dim |-> g] ELSE DataRow(0)
                  vec == IF index.normalize THEN normalize_vector(raw) ELSE raw
              IN  /\ handed' = Record(NoRows, 0, <<id, vec>>)
                  /\ ub' = ub \cup UseEngine
                           \cup (IF rows = 0 THEN {"out_of_bounds"} ELSE {})
                  /\ IF addPointThrows(alg, id, replace_deleted)
                       THEN /\ call' = c
                            /\ ret' = Bool(FALSE)
                            /\ threw' = {0}
                            /\ UNCHANGED <<pfstate, pfvars, index, alg,
                                           auto_labels>>
                       ELSE /\ alg' = addPoint(alg, vec, id, replace_deleted)
                            /\ index' = [index EXCEPT !.ep_added = TRUE]
                            /\ auto_labels' = IF ids THEN auto_labels
                                              ELSE auto_labels \cup {id}
                            /\ call' = [c EXCEPT !.start = 1]
                            /\ ParallelForStart(1, nt)
                            /\ threw' = {}
                            /\ ret' = ret
         ELSE /\ handed' = NoRows
              /\ threw' = {}
              /\ call' = c
              /\ ParallelForStart(0, nt)
              /\ UNCHANGED <<index, alg, auto_labels, ub, ret>>

\* addPoint has been called for row 0 of the batch in progress
Row0Done == 0 \in DOMAIN handed

\* normalize_vector(&data[row * dim], &norm_array[start_idx], index->dim);
add_items_normalize(t) ==
    /\ pfstate = "running" /\ ~crashed
    /\ call.op = "add"
    /\ index.normalize
    /\ wpc[t] = "fn"
    /\ norm_array' = [norm_array EXCEPT
                        ![ScratchSlot(t)] = normalize_vector(DataRow(wid[t]))]
    /\ wpc' = [wpc EXCEPT ![t] = "fn2"]
    /\ UNCHANGED <<call, pfstate, current, lastException, lastExceptMutex, wid,
                   wexc, recorded, claimed, finished, invoked, stopped, propagated,
                   idxvars, bfvars, file, result_labels, result_distances,
                   slot_writer, histvars, ret, ncalls, budget, ub, crashed>>

\* index->appr_alg->addPoint(vector, id, replace_deleted) of one row: lines
\* 221-222 and 231-232
add_items_unit(t) ==
    /\ pfstate = "running" /\ ~crashed
    /\ call.op = "add"
    /\ wpc[t] = IF index.normalize THEN "fn2" ELSE "fn"
    /\ LET row == wid[t]
           id  == LabelOfRow(index, call.ids, row)
           vec == IF index.normalize THEN norm_array[ScratchSlot(t)]
                  ELSE DataRow(row)
       IN  /\ handed' = Record(handed, row, <<id, vec>>)
           /\ early' = (early \/ (row # 0 /\ ~Row0Done))
           /\ ub' = ub \cup UseEngine
           /\ IF addPointThrows(alg, id, call.replace_deleted)
                THEN /\ UnitThrows(t, <<row>>)
                     /\ threw' = threw \cup {row}
                     /\ UNCHANGED <<alg, auto_labels>>
                ELSE /\ UnitReturns(t)
                     /\ threw' = threw
                     /\ alg' = addPoint(alg, vec, id, call.replace_deleted)
                     /\ auto_labels' = IF call.ids THEN auto_labels
                                       ELSE auto_labels \cup {id}
    /\ UNCHANGED <<call, pfstate, current, lastException, lastExceptMutex,
                   recorded, claimed, stopped, propagated, index, bfvars, file,
                   bufvars, returned, saved, ef_set, ret, ncalls, budget, crashed>>

\* hnswlib_index_add_items after ParallelFor: lines 236-241
add_items_return ==
    /\ pfstate = "running" /\ ~crashed
    /\ call.op = "add"
    /\ Joined
    /\ propagated' = Outcome
    /\ pfstate' = "none"
    /\ WorkersGone
    /\ IF Outcome = NoException
         THEN /\ index' = [index EXCEPT !.cur_l = @ + call.rows]
              /\ ret' = Bool(TRUE)
         ELSE /\ index' = index
              /\ ret' = Bool(FALSE)
    /\ norm_array' = FreshScratch
    /\ UNCHANGED <<call, alg, bfvars, file, result_labels, result_distances,
                   slot_writer, histvars, ncalls, budget, ub, crashed>>

\* hnswlib_index_set_ef: lines 302-309
hnswlib_index_set_ef(ef) ==
    /\ CanCall
    /\ index.exists
    /\ Simple("set_ef", ef)
    /\ index' = [index EXCEPT !.default_ef = ef]
    /\ alg' = IF index.appr_alg # "null" THEN [alg EXCEPT !.ef_ = ef] ELSE alg
    /\ ub' = ub \cup UseEngine
    /\ ret' = Bool(TRUE)
    /\ ef_set' = ef
    /\ UNCHANGED <<bfvars, file, auto_labels, saved, crashed>>

\* hnswlib_index_set_ef called from another thread of the caller while a
\* search batch is running: the API takes no lock, and the store to ef_ is
\* one step between two units of the batch
set_ef_during_search(ef) ==
    /\ pfstate = "running" /\ ~crashed
    /\ call.op = "search"
    /\ ncalls < budget
    /\ ncalls' = ncalls + 1
    /\ index' = [index EXCEPT !.default_ef = ef]
    /\ alg' = IF index.appr_alg # "null" THEN [alg EXCEPT !.ef_ = ef] ELSE alg
    /\ ef_set' = ef
    /\ UNCHANGED <<call, pfstate, pfvars, bfvars, file, bufvars, handed,
                   returned, early, threw, auto_labels, saved, ret, budget,
                   ub, crashed>>

\* a getter: if (!index || !index->appr_alg) return 0; return the field
Getter(op, field) ==
    /\ CanCall
    /\ index.exists
    /\ Simple(op, 0)
    /\ ret' = Value(IF index.appr_alg = "null" THEN 0 ELSE field)
    /\ ub' = ub \cup UseEngine
    /\ UNCHANGED <<idxvars, bfvars, file, auto_labels, saved, ef_set, crashed>>

\* hnswlib_index_get_current_count: lines 311-314
hnswlib_index_get_current_count == Getter("get_current_count", cur_element_count(alg))

\* hnswlib_index_get_max_elements: lines 316-319
hnswlib_index_get_max_elements == Getter("get_max_elements", alg.max_elements_)

\* hnswlib_index_get_ef: lines 321-324
hnswlib_index_get_ef == Getter("get_ef", alg.ef_)

\* hnswlib_index_get_m: lines 326-329
hnswlib_index_get_m == Getter("get_m", alg.M_)

\* hnswlib_index_mark_deleted: lines 363-371
hnswlib_index_mark_deleted(label) ==
    /\ CanCall
    /\ index.exists
    /\ Simple("mark_deleted", label)
    /\ ret' = Bool(TRUE)
    /\ IF index.appr_alg = "null"
         THEN UNCHANGED <<alg, ub>>
         ELSE /\ alg' = markDelete(alg, label)
              /\ ub' = ub \cup UseEngine
    /\ UNCHANGED <<index, bfvars, file, auto_labels, saved, ef_set, crashed>>

\* hnswlib_index_unmark_deleted: lines 373-381
hnswlib_index_unmark_deleted(label) ==
    /\ CanCall
    /\ index.exists
    /\ Simple("unmark_deleted", label)
    /\ ret' = Bool(TRUE)
    /\ IF index.appr_alg = "null"
         THEN UNCHANGED <<alg, ub>>
         ELSE /\ alg' = unmarkDelete(alg, label)
              /\ ub' = ub \cup UseEngine
    /\ UNCHANGED <<index, bfvars, file, auto_labels, saved, ef_set, crashed>>

\* a variant of hnswlib_index_resize that does not test appr_alg
resize_without_null_check(new_size) ==
    /\ CanCall
    /\ index.exists
    /\ Simple("resize", new_size)
    /\ ub' = ub \cup UseEngine
    /\ IF resizeIndexThrows(alg, new_size)
         THEN ret' = Bool(FALSE) /\ alg' = alg
         ELSE ret' = Bool(TRUE) /\ alg' = resizeIndex(alg, new_size)
    /\ UNCHANGED <<index, bfvars, file, auto_labels, saved, ef_set, crashed>>

\* hnswlib_index_resize: lines 383-393
hnswlib_index_resize(new_size) ==
    /\ CanCall
    /\ index.exists
    /\ Simple("resize", new_size)
    /\ IF index.appr_alg = "null"
         THEN /\ ret' = Bool(FALSE)
              /\ UNCHANGED <<alg, ub>>
         ELSE /\ ub' = ub \cup UseEngine
              /\ IF resizeIndexThrows(alg, new_size)
                   THEN ret' = Bool(FALSE) /\ alg' = alg
                   ELSE ret' = Bool(TRUE) /\ alg' = resizeIndex(alg, new_size)
    /\ UNCHANGED <<index, bfvars, file, auto_labels, saved, ef_set, crashed>>

\* hnswlib_index_free with ~HNSWIndex: lines 164-168 and 103-110
hnswlib_index_free ==
    /\ CanCall
    /\ index.exists
    /\ Simple("free", 0)
    /\ index' = [index EXCEPT !.exists = FALSE]
    /\ ub' = ub \cup UseEngine
    /\ ret' = Bool(TRUE)
    /\ UNCHANGED <<alg, bfvars, file, auto_labels, saved, ef_set, crashed>>

\* a variant that fills a query's slots from the front
SlotFilledForward(i, k, j) == i * k + ((k - 1) - j)

\* result_distances[i * k + j] and result_labels[i * k + j]: lines 268-269
Slot(i, k, j) == i * k + j

RECURSIVE Drain(_, _, _, _, _, _)
\* for (int j = k - 1; j >= 0; j--) { top = result.top();
\*   result_distances[i * k + j] = top.first;
\*   result_labels[i * k + j] = top.second; result.pop(); }
\* out holds the two buffers and, per slot, the queries that wrote it.  top()
\* and pop() of an empty queue are undefined: the slot gets the garbage g.
Drain(queue, i, k, j, out, g) ==
    IF j < 0 THEN out
    ELSE LET top == IF queue = {} THEN <<g, g>> ELSE MaxPair(queue)
             slot == Slot(i, k, j)
         IN  Drain(queue \ {top}, i, k, j - 1,
                   [labels |-> [out.labels EXCEPT ![slot] = top[2]],
                    distances |-> [out.distances EXCEPT ![slot] = top[1]],
                    writer |-> [out.writer EXCEPT ![slot] = @ \cup {i}]],
                   g)

Buffers ==
    [labels |-> result_labels, distances |-> result_distances,
     writer |-> slot_writer]

\* the caller's output buffers of query_count * k slots, before the call
FreshBuffers(query_count, k) ==
    /\ result_labels' = [s \in 0 .. (query_count * k - 1) |-> 0]
    /\ result_distances' = [s \in 0 .. (query_count * k - 1) |-> 0]
    /\ slot_writer' = [s \in 0 .. (query_count * k - 1) |-> {}]

\* if (result.size() != k) throw std::runtime_error(...)
TooFewResults(queue, k) == Cardinality(queue) # k

\* hnswlib_index_search_knn, up to the start of ParallelFor: lines 244-256
hnswlib_index_search_knn(k, query_count, num_threads) ==
    /\ CanCall
    /\ index.exists
    /\ ncalls' = ncalls + 1
    /\ UNCHANGED budget
    /\ UNCHANGED <<idxvars, bfvars, file, auto_labels, saved, ef_set, crashed, ub>>
    /\ NoBatch
    /\ returned' = NoQueues
    /\ norm_array' = FreshScratch
    /\ FreshBuffers(query_count, k)
    /\ LET nt == BatchThreads(index, num_threads, query_count)
           c  == [NoCall EXCEPT !.op = "search", !.rows = query_count,
                    !.k = k, !.end = query_count, !.numThreads = nt]
       IN  /\ call' = c
           /\ IF index.appr_alg = "null"
                THEN /\ ret' = Bool(FALSE)
                     /\ UNCHANGED <<pfstate, pfvars>>
                ELSE /\ ParallelForStart(0, nt)
                     /\ ret' = ret

\* normalize_vector(&query[i * dim], &norm_array[start_idx], index->dim);
search_knn_normalize(t) ==
    /\ pfstate = "running" /\ ~crashed
    /\ call.op = "search"
    /\ index.normalize
    /\ wpc[t] = "fn"
    /\ norm_array' = [norm_array EXCEPT
                        ![ScratchSlot(t)] = normalize_vector(QueryRow(wid[t]))]
    /\ wpc' = [wpc EXCEPT ![t] = "fn2"]
    /\ UNCHANGED <<call, pfstate, current, lastException, lastExceptMutex, wid,
                   wexc, recorded, claimed, finished, invoked, stopped, propagated,
                   idxvars, bfvars, file, result_labels, result_distances,
                   slot_writer, histvars, ret, ncalls, budget, ub, crashed>>

\* one query: searchKnn, the size check and the copy-out: lines 259-271 and
\* 279-291
search_knn_unit(t) ==
    /\ pfstate = "running" /\ ~crashed
    /\ call.op = "search"
    /\ wpc[t] = IF index.normalize THEN "fn2" ELSE "fn"
    /\ LET i == wid[t]
           q == IF index.normalize THEN norm_array[ScratchSlot(t)]
                ELSE QueryRow(i)
           result == searchKnn(alg, IsL2(index), q, call.k)
       IN  /\ returned' = Record(returned, i, result)
           /\ ub' = ub \cup UseEngine
           /\ IF TooFewResults(result, call.k)
                THEN /\ UnitThrows(t, <<i>>)
                     /\ UNCHANGED <<result_labels, result_distances, slot_writer>>
                ELSE LET out == Drain(result, i, call.k, call.k - 1, Buffers, 0)
                     IN  /\ UnitReturns(t)
                         /\ result_labels' = out.labels
                         /\ result_distances' = out.distances
                         /\ slot_writer' = out.writer
    /\ UNCHANGED <<call, pfstate, current, lastException, lastExceptMutex,
                   recorded, claimed, stopped, propagated, idxvars, bfvars,
                   file, norm_array, handed, early, threw, auto_labels, saved, ef_set,
                   ret,
                   ncalls, budget, crashed>>

\* hnswlib_index_search_knn after ParallelFor: lines 295-299
search_knn_return ==
    /\ pfstate = "running" /\ ~crashed
    /\ call.op = "search"
    /\ Joined
    /\ propagated' = Outcome
    /\ pfstate' = "none"
    /\ WorkersGone
    /\ ret' = Bool(Outcome = NoException)
    /\ norm_array' = FreshScratch
    /\ UNCHANGED <<call, idxvars, bfvars, file, result_labels, result_distances,
                   slot_writer, histvars, ncalls, budget, ub, crashed>>

\* hnswlib_index_save: lines 331-341.  saveIndex fails with an IOError when
\* the path cannot be written.
hnswlib_index_save(writable) ==
    /\ CanCall
    /\ index.exists
    /\ Simple("save", 0)
    /\ IF index.appr_alg = "null"
         THEN /\ ret' = Bool(FALSE)
              /\ UNCHANGED <<file, saved, ub>>
         ELSE /\ ub' = ub \cup UseEngine
              /\ IF writable
                   THEN /\ ret' = Bool(TRUE)
                        /\ file' = saveIndex(alg)
                        /\ saved' = alg
                   ELSE /\ ret' = Bool(FALSE)
                        /\ UNCHANGED <<file, saved>>
    /\ UNCHANGED <<idxvars, bfvars, auto_labels, ef_set, crashed>>

\* a variant that installs the handle's default ef in the loaded engine
LoadedEngineWithDefaultEf(h, f, max_elements, allow_replace_deleted) ==
    [loadIndex(f, max_elements, allow_replace_deleted)
       EXCEPT !.ef_ = h.default_ef]

\* index->appr_alg = new HierarchicalNSW<float>(index->space, path, false,
\*                                             max_elements, allow_replace_deleted);
LoadedEngine(h, f, max_elements, allow_replace_deleted) ==
    loadIndex(f, max_elements, allow_replace_deleted)

\* hnswlib_index_load: lines 343-361.  The handle it returns becomes the
\* handle the later calls are made on; when it returns nullptr they stay
\* with the handle they had.
hnswlib_index_load(space_type, dim, max_elements, allow_replace_deleted) ==
    /\ CanCall
    /\ Simple("load", max_elements)
    /\ UNCHANGED <<bfvars, file, saved, crashed, ub>>
    /\ LET h == HNSWIndex(space_type, dim)
       IN  IF ~h.space \/ loadIndexThrows(file, max_elements)
             THEN /\ ret' = Bool(FALSE)
                  /\ UNCHANGED <<index, alg, auto_labels, ef_set>>
             ELSE LET e == LoadedEngine(h, file, max_elements,
                                        allow_replace_deleted)
                  IN  /\ ret' = Bool(TRUE)
                      /\ alg' = e
                      /\ index' = [h EXCEPT
                                     !.appr_alg = "live",
                                     !.cur_l = cur_element_count(e),
                                     !.index_inited = TRUE,
                                     !.ep_added = TRUE]
                      /\ auto_labels' = {l \in DOMAIN e.points : l < IdOfRow(0)}
                      /\ ef_set' = 0

----------------------------------------------------------------------------
(* The operations on a BFIndex handle.                                      *)

UseBfEngine == IF bf.alg = "freed" THEN {"bf_use_after_free"} ELSE {}

\* hnswlib_bf_index_init: lines 411-426
hnswlib_bf_index_init(max_elements) ==
    /\ CanCall
    /\ bf.exists
    /\ Simple("bf_init", max_elements)
    /\ UNCHANGED <<idxvars, file, saved, ef_set, crashed>>
    /\ IF ~bf.space
         THEN /\ ret' = Bool(FALSE)
              /\ UNCHANGED <<bf, bfalg, auto_labels, ub>>
       ELSE IF EngineCtorThrows(max_elements)
         THEN /\ ret' = Bool(FALSE)
              /\ bf' = [bf EXCEPT
                          !.cur_l = 0,
                          !.alg = IF @ = "null" THEN "null" ELSE "freed"]
              /\ IF bf.alg = "null"
                   THEN bfalg' = bfalg
                   ELSE bfalg' \in {bfalg, NewEngine(max_elements, 0, FALSE)}
              /\ ub' = ub \cup UseBfEngine
              /\ auto_labels' = auto_labels
         ELSE /\ ret' = Bool(TRUE)
              /\ bf' = [bf EXCEPT !.cur_l = 0, !.alg = "live"]
              /\ bfalg' = NewEngine(max_elements, 0, FALSE)
              /\ ub' = ub \cup UseBfEngine
              /\ auto_labels' = {}

RECURSIVE BfAddLoop(_, _, _, _, _)
\* for (row < rows) { id = ids ? ids[row] : index->cur_l + row;
\*   index->alg->addPoint(normalized or raw row, id); }
\* gives the engine, the auto-assigned labels inserted, and whether
\* addPoint threw
BfAddLoop(h, e, row, rows, ids) ==
    IF row >= rows THEN [e |-> e, auto |-> {}, threw |-> FALSE]
    ELSE LET id  == IF ids THEN IdOfRow(row) ELSE h.cur_l + row
             vec == IF h.normalize THEN normalize_vector(DataRow(row))
                    ELSE DataRow(row)
         IN  IF addPointThrows(e, id, FALSE)
               THEN [e |-> e, auto |-> {}, threw |-> TRUE]
               ELSE LET rest == BfAddLoop(h, addPoint(e, vec, id, FALSE),
                                          row + 1, rows, ids)
                    IN  [rest EXCEPT
                           !.auto = IF ids THEN @ ELSE @ \cup {id}]

\* hnswlib_bf_index_add_items: lines 428-450
hnswlib_bf_index_add_items(rows, dim, ids) ==
    /\ CanCall
    /\ bf.exists
    /\ ncalls' = ncalls + 1
    /\ UNCHANGED budget
    /\ call' = [NoCall EXCEPT !.op = "bf_add", !.rows = rows, !.dim = dim,
                  !.ids = ids, !.cur_l0 = bf.cur_l]
    /\ NoBuffers
    /\ NoBatch
    /\ UNCHANGED <<pfstate, pfvars, idxvars, file, saved, ef_set, crashed>>
    /\ IF bf.alg = "null" \/ WrongDim(bf, dim)
         THEN /\ ret' = Bool(FALSE)
              /\ UNCHANGED <<bf, bfalg, auto_labels, ub>>
         ELSE LET r == BfAddLoop(bf, bfalg, 0, rows, ids)
              IN  /\ bfalg' = r.e
                  /\ auto_labels' = auto_labels \cup r.auto
                  /\ ub' = ub \cup (IF rows > 0 THEN UseBfEngine ELSE {})
                  /\ IF r.threw
                       THEN ret' = Bool(FALSE) /\ bf' = bf
                       ELSE /\ ret' = Bool(TRUE)
                            /\ bf' = [bf EXCEPT !.cur_l = @ + rows]

\* hnswlib_bf_index_search_knn, up to the start of ParallelFor: lines 452-459
hnswlib_bf_index_search_knn(k, query_count, num_threads) ==
    /\ CanCall
    /\ bf.exists
    /\ ncalls' = ncalls + 1
    /\ UNCHANGED budget
    /\ UNCHANGED <<idxvars, bfvars, file, auto_labels, saved, ef_set, crashed, ub>>
    /\ NoBatch
    /\ norm_array' = FreshScratch
    /\ returned' = NoQueues
    /\ FreshBuffers(query_count, k)
    /\ LET nt == IF num_threads <= 0 THEN bf.num_threads_default
                 ELSE num_threads
           c  == [NoCall EXCEPT !.op = "bf_search", !.rows = query_count,
                    !.k = k, !.end = query_count, !.numThreads = nt]
       IN  /\ call' = c
           /\ IF bf.alg = "null"
                THEN /\ ret' = Bool(FALSE)
                     /\ UNCHANGED <<pfstate, pfvars>>
                ELSE /\ ParallelForStart(0, nt)
                     /\ ret' = ret

\* one query of the brute-force batch: lines 461-476.  The normalized query
\* is a local of the unit.
bf_search_knn_unit(t) ==
    /\ pfstate = "running" /\ ~crashed
    /\ call.op = "bf_search"
    /\ wpc[t] = "fn"
    /\ \E g \in Garbage :
       LET i == wid[t]
           q == IF bf.normalize THEN normalize_vector(QueryRow(i))
                ELSE QueryRow(i)
           result == bf_searchKnn(bfalg, IsL2(bf), q, call.k)
           out == Drain(result, i, call.k, call.k - 1, Buffers, g)
       IN  /\ (Cardinality(result) >= call.k => g = 0)
           /\ returned' = Record(returned, i, result)
           /\ ub' = ub \cup UseBfEngine
                    \cup (IF Cardinality(result) < call.k
                            THEN {"empty_queue"} ELSE {})
           /\ UnitReturns(t)
           /\ result_labels' = out.labels
           /\ result_distances' = out.distances
           /\ slot_writer' = out.writer
    /\ UNCHANGED <<call, pfstate, current, lastException, lastExceptMutex,
                   recorded, claimed, stopped, propagated, idxvars, bfvars,
                   file, norm_array, handed, early, threw, auto_labels, saved, ef_set,
                   ret,
                   ncalls, budget, crashed>>

\* hnswlib_bf_index_search_knn after ParallelFor: lines 479-483
bf_search_knn_return ==
    /\ pfstate = "running" /\ ~crashed
    /\ call.op = "bf_search"
    /\ Joined
    /\ propagated' = Outcome
    /\ pfstate' = "none"
    /\ WorkersGone
    /\ ret' = Bool(Outcome = NoException)
    /\ norm_array' = FreshScratch
    /\ UNCHANGED <<call, idxvars, bfvars, file, result_labels, result_distances,
                   slot_writer, histvars, ncalls, budget, ub, crashed>>

\* hnswlib_bf_index_free with ~BFIndex: lines 405-409 and 142-149
hnswlib_bf_index_free ==
    /\ CanCall
    /\ bf.exists
    /\ Simple("bf_free", 0)
    /\ bf' = [bf EXCEPT !.exists = FALSE]
    /\ ub' = ub \cup UseBfEngine
    /\ ret' = Bool(TRUE)
    /\ UNCHANGED <<bfalg, idxvars, file, auto_labels, saved, ef_set, crashed>>

----------------------------------------------------------------------------
(* The life of a handle: every operation, on small batches.                 *)

SmallRowsIn == {0, 1, 3}
KIn == {1, 3}

\* hnswlib_index_create / hnswlib_bf_index_create have returned the handle
Created(hnsw, space_type, calls) ==
    /\ index = IF hnsw THEN HNSWIndex(space_type, Dim) ELSE NoHNSWIndex
    /\ bf = IF hnsw THEN NoBFIndex ELSE BFIndex(space_type, Dim)
    /\ alg = NoEngine
    /\ bfalg = NoEngine
    /\ call = NoCall
    /\ pfstate = "none"
    /\ budget = calls
    /\ WorkersIdle
    /\ NothingElse

Init == \E st \in SpaceTypes, hnsw \in BOOLEAN : Created(hnsw, st, MaxCalls)

Next ==
    \/ \E m \in MaxElementsIn : hnswlib_index_init(m, 16, FALSE)
    \/ \E r \in SmallRowsIn, d \in DimsIn, i \in BOOLEAN :
          hnswlib_index_add_items(r, d, i, 0, FALSE)
    \/ \E t \in Threads : add_items_normalize(t)
    \/ \E t \in Threads : add_items_unit(t)
    \/ add_items_return
    \/ \E k \in KIn, q \in {1, 2} : hnswlib_index_search_knn(k, q, 0)
    \/ \E t \in Threads : search_knn_normalize(t)
    \/ \E t \in Threads : search_knn_unit(t)
    \/ search_knn_return
    \/ \E e \in EfIn : hnswlib_index_set_ef(e)
    \/ hnswlib_index_get_current_count
    \/ hnswlib_index_get_max_elements
    \/ hnswlib_index_get_ef
    \/ hnswlib_index_get_m
    \/ \E l \in LabelsIn : hnswlib_index_mark_deleted(l)
    \/ \E l \in LabelsIn : hnswlib_index_unmark_deleted(l)
    \/ \E n \in {1, LargeCapacity} : hnswlib_index_resize(n)
    \/ \E w \in BOOLEAN : hnswlib_index_save(w)
    \/ \E m \in {SmallCapacity, LargeCapacity} :
          hnswlib_index_load(index.space_type, index.dim, m, FALSE)
    \/ hnswlib_index_free
    \/ \E m \in MaxElementsIn : hnswlib_bf_index_init(m)
    \/ \E r \in SmallRowsIn, d \in DimsIn, i \in BOOLEAN :
          hnswlib_bf_index_add_items(r, d, i)
    \/ \E k \in KIn, q \in {1, 2}, n \in {1, 2} :
          hnswlib_bf_index_search_knn(k, q, n)
    \/ \E t \in Threads : bf_search_knn_unit(t)
    \/ bf_search_knn_return
    \/ hnswlib_bf_index_free
    \/ \E t \in Threads : Fetch(t)
    \/ \E t \in Threads : Loop(t)
    \/ Crash

Spec == Init /\ [][Next]_vars

----------------------------------------------------------------------------
(* Batches on an HNSWIndex that are large enough to run on several threads. *)

MaxBatchCalls == 3

InitBatch == \E st \in SpaceTypes : Created(TRUE, st, MaxBatchCalls)

NextBatch ==
    \/ \E m \in {0, SmallCapacity, LargeCapacity} :
          hnswlib_index_init(m, 16, FALSE)
    \/ \E r \in {1, BigBatch}, i \in BOOLEAN, n \in {1, 2} :
          hnswlib_index_add_items(r, Dim, i, n, FALSE)
    \/ \E t \in Threads : add_items_normalize(t)
    \/ \E t \in Threads : add_items_unit(t)
    \/ add_items_return
    \/ \E k \in KIn, n \in {1, 2} : hnswlib_index_search_knn(k, BigBatch, n)
    \/ \E t \in Threads : search_knn_normalize(t)
    \/ \E t \in Threads : search_knn_unit(t)
    \/ search_knn_return
    \/ \E t \in Threads : Fetch(t)
    \/ \E t \in Threads : Loop(t)
    \/ \E t \in Threads : Catch(t)
    \/ \E t \in Threads : SetCur(t)

SpecBatch == InitBatch /\ [][NextBatch]_vars

----------------------------------------------------------------------------
(* Saving an HNSWIndex and loading it back.                                 *)

MaxPersistCalls == 6

InitPersist == \E st \in SpaceTypes : Created(TRUE, st, MaxPersistCalls)

NextPersist ==
    \/ \E m \in {LargeCapacity, MemLimit + 1} : hnswlib_index_init(m, 16, FALSE)
    \/ \E r \in {1, 3}, i \in BOOLEAN : hnswlib_index_add_items(r, Dim, i, 0, FALSE)
    \/ \E t \in Threads : add_items_normalize(t)
    \/ \E t \in Threads : add_items_unit(t)
    \/ add_items_return
    \/ \E e \in EfIn : hnswlib_index_set_ef(e)
    \/ \E l \in LabelsIn : hnswlib_index_mark_deleted(l)
    \/ \E w \in BOOLEAN : hnswlib_index_save(w)
    \/ \E m \in {SmallCapacity, LargeCapacity} :
          hnswlib_index_load(index.space_type, index.dim, m, FALSE)
    \/ \E t \in Threads : Loop(t)
    \/ Crash

SpecPersist == InitPersist /\ [][NextPersist]_vars

----------------------------------------------------------------------------
(* setEf around init and around the units of a running search batch.       *)

MaxEfCalls == 5

InitEf == \E st \in SpaceTypes : Created(TRUE, st, MaxEfCalls)

NextEf ==
    \/ hnswlib_index_init(LargeCapacity, 16, FALSE)
    \/ \E i \in BOOLEAN : hnswlib_index_add_items(3, Dim, i, 0, FALSE)
    \/ \E t \in Threads : add_items_normalize(t)
    \/ \E t \in Threads : add_items_unit(t)
    \/ add_items_return
    \/ \E k \in KIn : hnswlib_index_search_knn(k, 2, 0)
    \/ \E t \in Threads : search_knn_normalize(t)
    \/ \E t \in Threads : search_knn_unit(t)
    \/ search_knn_return
    \/ \E e \in EfIn : hnswlib_index_set_ef(e)
    \/ \E e \in EfIn : set_ef_during_search(e)
    \/ hnswlib_index_get_ef
    \/ \E t \in Threads : Loop(t)

SpecEf == InitEf /\ [][NextEf]_vars

----------------------------------------------------------------------------
(* Multi-threaded batches with explicit labels on an initialized and on a  *)
(* loaded handle.  The labels of every batch are the same, so no insertion *)
(* exceeds the capacity and no unit throws.                                *)

MaxLoadCalls == 4

InitLoad == \E st \in SpaceTypes : Created(TRUE, st, MaxLoadCalls)

NextLoad ==
    \/ hnswlib_index_init(LargeCapacity, 16, FALSE)
    \/ \E r \in {1, BigBatch} : hnswlib_index_add_items(r, Dim, TRUE, 2, FALSE)
    \/ \E t \in Threads : add_items_normalize(t)
    \/ \E t \in Threads : add_items_unit(t)
    \/ add_items_return
    \/ hnswlib_index_save(TRUE)
    \/ hnswlib_index_load(index.space_type, index.dim, LargeCapacity, FALSE)
    \/ \E t \in Threads : Fetch(t)
    \/ \E t \in Threads : Loop(t)

SpecLoad == InitLoad /\ [][NextLoad]_vars

----------------------------------------------------------------------------
\* the batch call of the given kind has returned to its caller
Returned(op) == call.op = op /\ pfstate = "none" /\ ~crashed

\* the (distance, label) pair held by output slot j of query i
SlotPair(i, j) ==
    <<result_distances[i * call.k + j], result_labels[i * call.k + j]>>

(* C1.  After a search call that returned success, for every query i the   *)
(* slots i*k .. i*k+k-1 of the two output buffers hold exactly the k pairs *)
(* the engine returned for query i, by ascending distance, and no other    *)
(* query wrote to those slots.                                             *)
C1_SlotsSortedAndOwned ==
    (Returned("search") /\ ret.ok) =>
        \A i \in 0 .. (call.rows - 1) :
            /\ Cardinality(returned[i]) = call.k
            /\ {SlotPair(i, j) : j \in 0 .. (call.k - 1)} = returned[i]
            /\ \A j \in 0 .. (call.k - 2) :
                  result_distances[i * call.k + j]
                      <= result_distances[i * call.k + j + 1]
            /\ \A j \in 0 .. (call.k - 1) :
                  slot_writer[i * call.k + j] = {i}

C1_Witness ==
    /\ Returned("search") /\ ret.ok
    /\ call.numThreads = 2
    /\ call.k = 3
    /\ result_distances[0] < result_distances[2]
    /\ returned[0] # returned[1]

(* C2.  For both index types a search batch in which some query got fewer  *)
(* than k results returns failure, and no unit reads the top of an empty   *)
(* result queue.                                                           *)
C2_ShortResultsFail ==
    /\ "empty_queue" \notin ub
    /\ \A op \in {"search", "bf_search"} :
          (/\ Returned(op)
           /\ \E i \in DOMAIN returned : Cardinality(returned[i]) < call.k)
              => ~ret.ok

\* the label and the vector that row r of the batch in progress stands for
ExpectedLabel(r) == IF call.ids THEN IdOfRow(r) ELSE call.cur_l0 + r

ExpectedVector(r) ==
    IF index.normalize THEN normalize_vector(DataRow(r)) ELSE DataRow(r)

(* C3.  During an addItems call every (label, vector) pair handed to the   *)
(* engine is the one its row alone determines, whichever worker ran it and *)
(* whatever the other rows were doing; after a successful call every row   *)
(* has been handed over and the engine maps each row's label to its vector.*)
C3_RowDeterminesPair ==
    (call.op = "add" /\ ~crashed /\ call.rows >= 1) =>
        /\ \A r \in DOMAIN handed :
              handed[r] = <<ExpectedLabel(r), ExpectedVector(r)>>
        /\ (pfstate = "none" /\ ret.ok) =>
              \A r \in 0 .. (call.rows - 1) :
                  /\ r \in DOMAIN handed
                  /\ ExpectedLabel(r) \in DOMAIN alg.points
                  /\ alg.points[ExpectedLabel(r)] = ExpectedVector(r)

C3_Witness ==
    /\ Returned("add") /\ ret.ok
    /\ call.numThreads = 2
    /\ call.rows = BigBatch
    /\ index.normalize

(* C4.  The claim as stated: when several units fail during one            *)
(* multi-threaded run, the failure propagated to the caller is the first   *)
(* failure that was recorded during the run.                               *)
C4_FirstRecordedPropagated ==
    (pfstate = "returned" /\ recorded # <<>>) => propagated = recorded[1]

(* C4, amended.  The failure propagated to the caller of a multi-threaded  *)
(* run is the failure that was recorded last: each recorded failure        *)
(* replaces the one recorded before it.                                    *)
C4_LastRecordedPropagated ==
    (pfstate = "returned" /\ recorded # <<>>) =>
        propagated = recorded[Len(recorded)]

C4_Witness ==
    /\ pfstate = "returned"
    /\ Len(recorded) >= 2
    /\ recorded[1] # recorded[Len(recorded)]
    /\ propagated = recorded[Len(recorded)]

(* C5.  Once a worker has recorded a failure and moved the cursor to end,  *)
(* no further index is claimed; every claimed unit has run to its end when *)
(* ParallelFor returns; and it returns only when every worker has left its *)
(* loop.                                                                   *)
C5_StopsDispatching ==
    [][ /\ (stopped => claimed' = claimed)
        /\ (pfstate' = "returned" =>
              /\ \A t \in Threads : wpc'[t] \in {"idle", "exit", "thrown"}
              /\ finished' = claimed') ]_vars

C5_Witness ==
    /\ pfstate = "returned"
    /\ stopped
    /\ ~Sequential
    /\ claimed # call.start .. (call.end - 1)
    /\ Cardinality(claimed) >= 2

\* the rows of the batch in progress that the engine accepted
Inserted == DOMAIN handed \ threw

(* C6.  The claim as stated: in every addItems call row 0 is inserted      *)
(* before any other row of the batch, and when row 0's insertion fails no  *)
(* other row is inserted.                                                  *)
C6_Row0AlwaysFirst ==
    (call.op = "add" /\ ~crashed) =>
        /\ ~early
        /\ (0 \in threw => Inserted = {})

(* C6, amended.  In an addItems call of at least one row that is entered   *)
(* while the handle's ep_added flag is clear, row 0 is inserted before any *)
(* other row of the batch, and when row 0's insertion fails no other row   *)
(* is handed to the engine.                                                *)
C6_EntryPointRowFirst ==
    (call.op = "add" /\ ~crashed /\ ~call.ep0 /\ call.rows >= 1) =>
        /\ ~early
        /\ (handed # NoRows => 0 \in DOMAIN handed)
        /\ (0 \in threw => DOMAIN handed = {0})

C6_Witness ==
    /\ Returned("add") /\ ret.ok
    /\ ~call.ep0
    /\ call.numThreads = 2
    /\ call.rows = BigBatch

\* what a caller can observe of an engine: the element count, the
\* tombstones, the search width and the results of searches
Observable(e, l2) ==
    [count |-> cur_element_count(e),
     deleted |-> e.deleted,
     ef |-> e.ef_,
     results |-> [q \in 0 .. 1, k \in 1 .. 3 |->
                     searchKnn(e, l2, QueryRow(q), k)]]

C8_NoDestroyedEngine ==
    /\ index.appr_alg # "freed"
    /\ "use_after_free" \notin ub

(* C9.  Every label the index assigned automatically and that is in the    *)
(* engine lies below the counter the next automatic label is taken from,   *)
(* so the next addItems call cannot assign it again.                       *)
C9_CounterPastAutoLabels ==
    (pfstate = "none" /\ ~crashed /\ ub = {} /\ index.appr_alg = "live") =>
        \A l \in auto_labels : l < index.cur_l

\* the calls that report success or failure, and the ones that return a number
BoolOps == {"add", "search", "save", "resize"}

NumberOps == {"get_current_count", "get_max_elements", "get_ef", "get_m"}

VoidOps == {"mark_deleted", "unmark_deleted"}

(* C10.  On a handle that was never initialized or loaded, addItems,       *)
(* search, save and resize return failure, markDeleted and unmarkDeleted   *)
(* do nothing, the four getters return 0, and none of them changes the     *)
(* handle or starts any work.                                              *)
C10_UninitializedIsInert ==
    [][ (/\ index.exists /\ index.appr_alg = "null"
         /\ ncalls' = ncalls + 1
         /\ call'.op \in BoolOps \cup NumberOps \cup VoidOps)
        => /\ index' = index /\ alg' = alg /\ file' = file
           /\ pfstate' = "none"
           /\ ub' = ub
           /\ (call'.op \in BoolOps => ret' = Bool(FALSE))
           /\ (call'.op \in NumberOps => ret' = Value(0)) ]_vars

C10_Witness ==
    /\ index.exists /\ index.appr_alg = "null"
    /\ index.default_ef # DefaultEf
    /\ call.op = "get_ef"
    /\ ret = Value(0)

(* C11.  An addItems call, on either index type, whose dim differs from    *)
(* the dimension of the index returns failure, hands no row to the engine, *)
(* starts no work and leaves the handle and the engine as they were.       *)
C11_WrongDimRejected ==
    [][ (/\ ncalls' = ncalls + 1
         /\ \/ call'.op = "add" /\ call'.dim # index.dim
            \/ call'.op = "bf_add" /\ call'.dim # bf.dim)
        => /\ ret' = Bool(FALSE)
           /\ index' = index /\ alg' = alg
           /\ bf' = bf /\ bfalg' = bfalg
           /\ handed' = NoRows
           /\ auto_labels' = auto_labels
           /\ pfstate' = "none" ]_vars

C11_Witness ==
    /\ call.op = "add"
    /\ call.dim # index.dim
    /\ index.appr_alg = "live"
    /\ cur_element_count(alg) >= 1
    /\ ~ret.ok

\* the live elements of the engine
Live == DOMAIN alg.points \ alg.deleted

(* C12.  Once setEf(v) has returned on a handle, and until the next setEf, *)
(* an engine the handle holds has ef = v, getEf returns v, and every       *)
(* search unit that starts returns what a search of width v returns; this  *)
(* covers an engine created by a later init and the units of a running     *)
(* batch that start after the setEf.                                       *)
C12_EfInEffect ==
    [][ /\ (ef_set' # 0 /\ index'.appr_alg = "live") => alg'.ef_ = ef_set'
        /\ (ef_set # 0 /\ index.appr_alg = "live") =>
              /\ (call'.op = "get_ef" /\ ncalls' = ncalls + 1)
                    => ret' = Value(ef_set)
              /\ \A i \in DOMAIN returned' \ DOMAIN returned :
                    Cardinality(returned'[i])
                        = Min(Min(call.k, ef_set), Cardinality(Live)) ]_vars

C12_Witness ==
    /\ Returned("search")
    /\ ef_set = 1
    /\ index.index_inited
    /\ DOMAIN returned = {0, 1}
    /\ Cardinality(returned[0]) = 3
    /\ Cardinality(returned[1]) = 1

(* C13.  A successful init leaves an empty engine, the label counter at 0  *)
(* and ep_added clear, whatever the index held before; and an addItems     *)
(* call that finds ep_added clear has handed row 0, and no other row, to   *)
(* the engine when its fan-out starts, under label 0 when labels are       *)
(* automatic.                                                              *)
C13_InitDiscards ==
    [][ /\ (call'.op = "init" /\ ncalls' = ncalls + 1 /\ ret'.ok) =>
              /\ cur_element_count(alg') = 0
              /\ index'.cur_l = 0
              /\ ~index'.ep_added
              /\ index'.appr_alg = "live"
        /\ (/\ call'.op = "add" /\ ncalls' = ncalls + 1
            /\ index.appr_alg = "live" /\ ~index.ep_added
            /\ call'.rows >= 1 /\ call'.dim = index.dim) =>
              /\ DOMAIN handed' = {0}
              /\ handed'[0][1] = IF call'.ids THEN IdOfRow(0) ELSE 0
              /\ pfstate' = "running" => call'.start = 1 ]_vars

C13_Witness ==
    /\ call.op = "init" /\ ret.ok
    /\ call.cur_l0 > 0
    /\ cur_element_count(alg) = 0
    /\ index.cur_l = 0
    /\ ~index.ep_added

\* the indices of the range of the run
Range == call.start .. (call.end - 1)

\* the worker threads of the run, the calling thread included
Workers == {t \in Threads : wpc[t] # "idle"}

(* C14.  In a ParallelFor run in which no unit fails, fn is never called   *)
(* for an index outside [start, end) nor twice for one index, the          *)
(* sequential run calls it in ascending order, a thread count <= 0 stands  *)
(* for the hardware concurrency, and when the run returns fn has been      *)
(* called for every index of the range.                                    *)
C14_ExactlyOnce ==
    [][ (call.op = "pf" /\ call.failing \cap Range = {}) =>
          /\ \A i \in DOMAIN invoked' : i \in Range /\ invoked'[i] = 1
          /\ (Sequential /\ invoked' # invoked) =>
                DOMAIN invoked'
                    = call.start .. (call.start + Cardinality(DOMAIN invoked))
          /\ Cardinality(Workers) =
                IF call.asked <= 0 THEN hardware_concurrency ELSE call.asked
          /\ pfstate' = "returned" =>
                (DOMAIN invoked' = Range /\ propagated' = NoException) ]_vars

C14_Witness ==
    /\ call.op = "pf" /\ pfstate = "returned"
    /\ call.failing \cap Range = {}
    /\ call.asked = 0
    /\ Cardinality(Range) >= 3
    /\ DOMAIN invoked = Range

(* C15.  Whenever the rows of an addItems batch are being dispatched to    *)
(* more than one worker, the graph holds at least one element.             *)
C15_FanOutOnPopulatedGraph ==
    (pfstate = "running" /\ call.op = "add" /\ ~Sequential) =>
        cur_element_count(alg) >= 1

(* C16.  An addItems call with rows = 0 reads no row of the input and      *)
(* hands nothing to the engine, and on an initialized index it returns     *)
(* success with the label counter and ep_added as they were at entry.      *)
C16_EmptyBatchInert ==
    (call.op = "add" /\ call.rows = 0 /\ ~crashed) =>
        /\ handed = NoRows
        /\ "out_of_bounds" \notin ub
        /\ (/\ pfstate = "none"
            /\ index.appr_alg = "live"
            /\ call.dim = index.dim) =>
              /\ ret.ok
              /\ index.cur_l = call.cur_l0
              /\ index.ep_added = call.ep0

(* C17.  A batch of HNSW addItems, HNSW searchKnn or brute-force searchKnn *)
(* runs with more than one worker only when its size exceeds 4 times the   *)
(* resolved thread count; a smaller batch runs on the calling thread.      *)
C17_SmallBatchSingleThreaded ==
    (/\ pfstate = "running"
     /\ call.op \in {"add", "search", "bf_search"}
     /\ call.rows <= 4 * call.numThreads) =>
        /\ call.numThreads = 1
        /\ \A t \in Threads : wpc[t] # "idle" => t = 0

(* C18.  Under fair scheduling every ParallelFor run ends: eventually every *)
(* worker has left its loop and the call has returned to the caller,        *)
(* without a failure only when fn ran for every index of [start, end).      *)
C18_Terminates ==
    <>(/\ pfstate = "returned"
       /\ \A t \in Threads : wpc[t] \in {"idle", "exit", "thrown"}
       /\ lastExceptMutex = {}
       /\ propagated = NoException => DOMAIN invoked = Range)

C18_Witness ==
    /\ call.op = "pf"
    /\ pfstate = "returned"
    /\ Cardinality({t \in Threads : wexc[t] # NoException}) >= 2
    /\ Len(recorded) >= 2
    /\ propagated # NoException

====
